---- MODULE Spec2Model ----
(***************************************************************************)
(* A model of lintparser (src/src/lib.rs): the header-line parser          *)
(* parse_check_line, the classifier line_is_visual_aid and the aggregator  *)
(* loop of cargo_check.                                                    *)
(*                                                                         *)
(* Text is modelled as it is scanned: a line is a sequence of characters   *)
(* (one-character strings, all ASCII so that len_utf8() = 1), and the      *)
(* captured stderr is a sequence of lines.  Byte offsets are 0-based as in *)
(* the source: line[a..b] is SubSeq(line, a + 1, b).                        *)
(***************************************************************************)
EXTENDS Integers, Sequences, FiniteSets, TLC

VARIABLES
    stderr_text,  \* the lines of the captured stderr (stderr_text.lines())
    lines,        \* the iterator `lines`: how many lines it has yielded
    cur_line,     \* Option<&str> as the 1-based index of the line; 0 is None
    pc,           \* position in cargo_check
    level,        \* the Level returned for the current diagnostic
    problem,      \* the ProblemDescription of the current diagnostic
    was_visual,   \* the flag of the inner loop
    problems,     \* Vec<ProblemDescription>
    is_warning,   \* the verdict flag
    result,       \* what cargo_check hands to its caller
    stdout,       \* the lines println! has written (by index)
    spin,         \* inner-loop iterations that ended in `continue`
    parsed,       \* history: the calls of parse_check_line, in order
    dispatched,   \* history: the dispatches on level, in order
    skipped,      \* history: line indices discarded by the Warning arm
    pfields,      \* the fields a header line was rendered from
    pline,        \* the line given to parse_check_line
    ps,           \* the locals of parse_check_line while it scans pline
    vres          \* line_is_visual_aid(pline) as "true"/"false"; "none" before

aggVars == <<stderr_text, lines, cur_line, pc, level, problem, was_visual,
             problems, is_warning, result, stdout, spin, parsed, dispatched,
             skipped>>
parseVars == <<pfields, pline, ps, vres>>
vars == <<stderr_text, lines, cur_line, pc, level, problem, was_visual,
          problems, is_warning, result, stdout, spin, parsed, dispatched,
          skipped, pfields, pline, ps, vres>>

----------------------------------------------------------------------------
(* Bounds of the model *)

\* longest captured stderr, in lines
MaxLines == 3
\* longest line given to line_is_visual_aid on its own, in characters
MaxLineLen == 5
\* most whitespace characters generated at one WS* position of a header
MaxWS == 2
\* how many times the model follows the inner loop's `continue`
MaxSpin == 2

----------------------------------------------------------------------------
(* Characters and strings *)

IsWhitespace(ch) == ch \in {" ", "\t"}

Digits == {"0", "1", "2", "3", "4", "5", "6", "7", "8", "9"}

DigitVal(ch) ==
    CASE ch = "0" -> 0 [] ch = "1" -> 1 [] ch = "2" -> 2 [] ch = "3" -> 3
      [] ch = "4" -> 4 [] ch = "5" -> 5 [] ch = "6" -> 6 [] ch = "7" -> 7
      [] ch = "8" -> 8 [] ch = "9" -> 9

RECURSIVE DecimalValue(_)
DecimalValue(s) ==
    IF s = <<>> THEN 0
    ELSE 10 * DecimalValue(SubSeq(s, 1, Len(s) - 1)) + DigitVal(s[Len(s)])

\* usize::from_str: an optional '+', then one or more decimal digits.  The
\* numerals of this model are far shorter than the 20 digits at which a
\* 64-bit usize overflows, so the overflow error is not reachable here.
usize_from_str(s) ==
    LET body == IF s /= <<>> /\ s[1] = "+" THEN SubSeq(s, 2, Len(s)) ELSE s
    IN  IF body /= <<>> /\ \A k \in 1..Len(body) : body[k] \in Digits
        THEN [ok |-> TRUE, val |-> DecimalValue(body)]
        ELSE [ok |-> FALSE, val |-> 0]

\* str::starts_with
starts_with(s, prefix) ==
    /\ Len(prefix) <= Len(s)
    /\ SubSeq(s, 1, Len(prefix)) = prefix

COMPILE_ERROR_LINE ==
    <<"e", "r", "r", "o", "r", ":", " ", "a", "b", "o", "r", "t", "i", "n",
      "g", " ", "d", "u", "e", " ", "t", "o", " ", "p", "r", "e", "v", "i",
      "o", "u", "s", " ", "e", "r", "r", "o", "r">>

KwWarning == <<"w", "a", "r", "n", "i", "n", "g">>
KwError == <<"e", "r", "r", "o", "r">>
KwHelp == <<"h", "e", "l", "p">>
KwNote == <<"n", "o", "t", "e">>

----------------------------------------------------------------------------
(* parse_check_line: one step per character of the line *)

\* the locals before the loop; i is the offset of the next character
ParseStart ==
    [state |-> "File", filepath |-> <<>>, start_line |-> 0, start_col |-> 0,
     end_line |-> 0, end_col |-> 0, level |-> "Warning", start |-> 0,
     i |-> 0, out |-> "run", message |-> <<>>]

ParseIdle == [ParseStart EXCEPT !.out = "idle"]

\* the locals handed back as they are instead of a panic
ReturnPartial(p) == [p EXCEPT !.out = "ret"]

Panic(p) == [p EXCEPT !.out = "panic"]

StepFile(p, line, i, ch) ==
    IF ch = ":"
    THEN [p EXCEPT !.filepath = SubSeq(line, 1, i), !.state = "StartLine",
                   !.start = i + 1]
    ELSE p

StepStartLine(p, line, i, ch) ==
    IF ch = ":"
    THEN LET n == usize_from_str(SubSeq(line, p.start + 1, i))
         IN  IF n.ok
             THEN [p EXCEPT !.start_line = n.val, !.state = "StartCol",
                            !.start = i + 1]
             ELSE Panic(p)
    ELSE p

StepStartCol(p, line, i, ch) ==
    IF ch = ":"
    THEN LET n == usize_from_str(SubSeq(line, p.start + 1, i))
         IN  IF n.ok
             THEN [p EXCEPT !.start_col = n.val, !.state = "EndLine",
                            !.start = i + 1]
             ELSE Panic(p)
    ELSE p

StepEndLine(p, line, i, ch) ==
    IF IsWhitespace(ch)
    THEN [p EXCEPT !.start = i + 1]
    ELSE IF ch = ":"
    THEN LET n == usize_from_str(SubSeq(line, p.start + 1, i))
         IN  IF n.ok
             THEN [p EXCEPT !.end_line = n.val, !.state = "EndCol",
                            !.start = i + 1]
             ELSE Panic(p)
    ELSE p

StepEndCol(p, line, i, ch) ==
    IF IsWhitespace(ch)
    THEN LET n == usize_from_str(SubSeq(line, p.start + 1, i))
         IN  IF n.ok
             THEN [p EXCEPT !.end_col = n.val, !.state = "Level",
                            !.start = i + 1]
             ELSE Panic(p)
    ELSE p

\* the match on level_text with a capitalised "Warning" accepted as well
LevelOfAnyCase(level_text, old) ==
    CASE level_text = KwWarning -> old
      [] level_text = <<"W", "a", "r", "n", "i", "n", "g">> -> old
      [] level_text = KwError -> "Error"
      [] level_text = KwHelp -> "Help"
      [] level_text = KwNote -> "Note"
      [] OTHER -> "Unknown"

\* the match on level_text; "warning" leaves the initial Level::Warning
LevelOf(level_text, old) ==
    CASE level_text = KwWarning -> old
      [] level_text = KwError -> "Error"
      [] level_text = KwHelp -> "Help"
      [] level_text = KwNote -> "Note"
      [] OTHER -> "Unknown"

StepLevel(p, line, i, ch) ==
    IF IsWhitespace(ch)
    THEN [p EXCEPT !.start = i + 1]
    ELSE IF ch = ":"
    THEN LET l == LevelOf(SubSeq(line, p.start + 1, i), p.level)
         IN  IF l = "Unknown"
             THEN Panic(p)
             ELSE [p EXCEPT !.level = l, !.state = "FirstMessageLine"]
    ELSE p

\* the message taken from `start` at once, leading whitespace not skipped
StepFirstMessageLineNoSkip(p, line, i, ch) ==
    [p EXCEPT !.message = SubSeq(line, p.start + 1, Len(line)),
              !.out = "ret"]

StepFirstMessageLine(p, line, i, ch) ==
    IF IsWhitespace(ch)
    THEN [p EXCEPT !.start = i + 1]
    ELSE [p EXCEPT !.message = SubSeq(line, p.start + 1, Len(line)),
                   !.out = "ret"]

\* one iteration of `for (i, ch) in line.char_indices()`, or the panic
\* after the loop when the characters are exhausted
ParseStep(p, line) ==
    IF p.i >= Len(line)
    THEN Panic(p)
    ELSE LET i == p.i
             ch == line[i + 1]
             q == CASE p.state = "File" -> StepFile(p, line, i, ch)
                    [] p.state = "StartLine" -> StepStartLine(p, line, i, ch)
                    [] p.state = "StartCol" -> StepStartCol(p, line, i, ch)
                    [] p.state = "EndLine" -> StepEndLine(p, line, i, ch)
                    [] p.state = "EndCol" -> StepEndCol(p, line, i, ch)
                    [] p.state = "Level" -> StepLevel(p, line, i, ch)
                    [] p.state = "FirstMessageLine" ->
                           StepFirstMessageLine(p, line, i, ch)
         IN  IF q.out = "run" THEN [q EXCEPT !.i = i + 1] ELSE q

RECURSIVE ParseRun(_, _)
ParseRun(p, line) ==
    IF p.out /= "run" THEN p ELSE ParseRun(ParseStep(p, line), line)

\* Note::new
NewNote(start_line, start_col, end_line, end_col, message) ==
    [start_line |-> start_line, start_col |-> start_col,
     end_line |-> end_line, end_col |-> end_col, message |-> message]

\* ProblemDescription::new
NewProblem(filepath, start_line, start_col, end_line, end_col, message, help, notes) ==
    [filepath |-> filepath,
     message |-> NewNote(start_line, start_col, end_line, end_col, message),
     help |-> help, notes |-> notes]

\* what a finished scan hands back: (level, problem), or the panic
ParseResult(p) ==
    IF p.out = "ret"
    THEN [out |-> "ret", level |-> p.level,
          problem |-> NewProblem(p.filepath, p.start_line, p.start_col,
                                 p.end_line, p.end_col, p.message,
                                 <<>>, <<>>)]
    ELSE [out |-> "panic"]

parse_check_line(line) == ParseResult(ParseRun(ParseStart, line))

----------------------------------------------------------------------------
(* line_is_visual_aid *)

RECURSIVE VisualScan(_, _, _)
\* k: 1-based position of the next character; colons: how many of
\* file_found, line_found, col_found are set
VisualScan(line, k, colons) ==
    IF k > Len(line) THEN FALSE
    ELSE IF IsWhitespace(line[k]) THEN colons < 3
    ELSE IF line[k] = ":"
         THEN IF colons < 3 THEN VisualScan(line, k + 1, colons + 1)
              ELSE FALSE
    ELSE VisualScan(line, k + 1, colons)

\* the scan started with file_found already set
line_is_visual_aid_one_found(line) == VisualScan(line, 1, 1)

line_is_visual_aid(line) == VisualScan(line, 1, 0)

----------------------------------------------------------------------------
(* Inputs *)

Spaces(n) == [k \in 1..n |-> " "]

\* a header line written from its fields, with ws[k] spaces at the k-th
\* WS* position of the grammar
Render(f) ==
    f.path \o <<":">> \o f.start_line \o <<":">> \o f.start_col \o <<":">>
      \o Spaces(f.ws[1]) \o f.end_line \o <<":">>
      \o Spaces(f.ws[2]) \o f.end_col
      \o Spaces(f.ws[3]) \o f.level \o <<":">>
      \o Spaces(f.ws[4]) \o f.msg

\* the separators of `path:line:col: line:col level: message`
ExactWS == <<1, 0, 1, 1>>

Paths == {<<"a">>, <<"s", "/", "l">>, <<"a", " ", "b">>, <<>>}
Coords == {<<<<"5">>, <<"1">>, <<"5">>, <<"1", "0">>>>,
           <<<<"1", "2">>, <<"7">>, <<"1", "3">>, <<"0">>>>}
Keywords == {KwWarning, KwError, KwHelp, KwNote}
\* level texts outside the grammar: other case, extra characters, empty
BadLevelTexts ==
    {<<"W", "a", "r", "n", "i", "n", "g">>, <<"n", "o", "t", "e", "s">>, <<>>}
LevelTexts == Keywords \cup BadLevelTexts
Messages == {<<"m">>, <<"u", ":", " ", "x">>}

HeaderFields ==
    {[path |-> pa, start_line |-> c[1], start_col |-> c[2],
      end_line |-> c[3], end_col |-> c[4], level |-> kw, msg |-> m,
      ws |-> <<w1, w2, w3, w4>>] :
        pa \in Paths, c \in Coords, kw \in LevelTexts, m \in Messages,
        w1 \in 0..MaxWS, w2 \in 0..MaxWS, w3 \in 0..MaxWS, w4 \in 0..MaxWS}

NoFields ==
    [path |-> <<>>, start_line |-> <<>>, start_col |-> <<>>,
     end_line |-> <<>>, end_col |-> <<>>, level |-> <<>>, msg |-> <<>>,
     ws |-> <<0, 0, 0, 0>>]

\* a header line of the aggregator's inputs: file pa, level kw, start line sl
Hdr(pa, kw, sl) ==
    Render([path |-> pa, start_line |-> sl, start_col |-> <<"1">>,
            end_line |-> <<"5">>, end_col |-> <<"1", "0">>, level |-> kw,
            msg |-> <<"m">>, ws |-> ExactWS])

WarningA == Hdr(<<"a">>, KwWarning, <<"1">>)
ErrorA == Hdr(<<"a">>, KwError, <<"2">>)
HelpA == Hdr(<<"a">>, KwHelp, <<"3">>)
HelpA2 == Hdr(<<"a">>, KwHelp, <<"6">>)
NoteA == Hdr(<<"a">>, KwNote, <<"4">>)
WarningB == Hdr(<<"b">>, KwWarning, <<"1">>)
ErrorB == Hdr(<<"b">>, KwError, <<"2">>)
\* a header whose start line is no number
BadNumberA == Hdr(<<"a">>, KwError, <<"x">>)
VisualLine == <<" ", "^">>
PlainLine == <<"x">>

\* short lines outside the header grammar, for the two line functions alone
ClassifyChars == {":", " ", "\t", "x"}
ClassifyInputs == UNION {[1..n -> ClassifyChars] : n \in 0..MaxLineLen}

LineAlphabet ==
    {WarningA, ErrorA, HelpA, HelpA2, NoteA, WarningB, ErrorB, BadNumberA,
     VisualLine, PlainLine, <<>>, COMPILE_ERROR_LINE}

Inputs == UNION {[1..n -> LineAlphabet] : n \in 0..MaxLines}

----------------------------------------------------------------------------
(* cargo_check: the aggregator loop over the lines of stderr *)

NoProblem == NewProblem(<<>>, 0, 0, 0, 0, <<>>, <<>>, <<>>)
NoResult == [kind |-> "None", problems |-> <<>>]
PanicResult == [kind |-> "Panic", problems |-> <<>>]

\* lines.next(): the index of the line yielded, 0 for None
Yield(n) == IF n < Len(stderr_text) THEN n + 1 ELSE 0
\* the iterator after one more next()
Advance(n) == IF n < Len(stderr_text) THEN n + 1 ELSE n

\* problem.message.message.push('\n'); push_str(line)
PushLine(p, line) ==
    [p EXCEPT !.message.message = @ \o <<"\n">> \o line]

\* push at the front instead of the back
PushProblemFront(v, p) == <<p>> \o v

\* problems.push(problem)
PushProblem(v, p) == Append(v, p)

\* the help span pushed onto the first problem instead of the last
PushHelpFirst(v, span) == [v EXCEPT ![1].help = Append(@, span)]

\* let last = problems.len() - 1; problems[last].help.push(problem.message)
PushHelp(v, span) == [v EXCEPT ![Len(v)].help = Append(@, span)]

\* the note span pushed onto the help list as well
PushNoteAndHelp(v, span) ==
    [v EXCEPT ![Len(v)].notes = Append(@, span),
              ![Len(v)].help = Append(@, span)]

\* let last = problems.len() - 1; problems[last].notes.push(problem.message)
PushNote(v, span) == [v EXCEPT ![Len(v)].notes = Append(@, span)]

\* Verdict with the flag ignored: any non-empty list is reported as Warning
VerdictIgnoringFlag(w, v) ==
    IF v = <<>> THEN [kind |-> "Perfect", problems |-> <<>>]
    ELSE [kind |-> "Warning", problems |-> v]

\* the value cargo_check returns after the loop
Verdict(w, v) ==
    IF w
    THEN IF v = <<>> THEN [kind |-> "Perfect", problems |-> <<>>]
         ELSE [kind |-> "Warning", problems |-> v]
    ELSE [kind |-> "Error", problems |-> v]

\* the state when the outer loop is first reached: `cargo check` has exited
\* successfully, its stderr is split into lines and the first lines.next()
\* has run
AggInit ==
    /\ stderr_text \in Inputs
    /\ lines = Advance(0)
    /\ cur_line = Yield(0)
    /\ pc = "outer"
    /\ level = "None"
    /\ problem = NoProblem
    /\ was_visual = FALSE
    /\ problems = <<>>
    /\ is_warning = TRUE
    /\ result = NoResult
    /\ stdout = <<>>
    /\ spin = 0
    /\ parsed = <<>>
    /\ dispatched = <<>>
    /\ skipped = {}

\* the head of the outer loop: the sentinel test, println!, the call of
\* parse_check_line and the first lines.next() of the diagnostic
OuterStep ==
    /\ pc = "outer"
    /\ IF cur_line = 0
       THEN /\ pc' = "return"
            /\ UNCHANGED <<lines, cur_line, level, problem, was_visual,
                           result, stdout, parsed>>
       ELSE IF stderr_text[cur_line] = COMPILE_ERROR_LINE
       THEN /\ pc' = "return"
            /\ UNCHANGED <<lines, cur_line, level, problem, was_visual,
                           result, stdout, parsed>>
       ELSE LET r == parse_check_line(stderr_text[cur_line])
            IN  /\ stdout' = Append(stdout, cur_line)
                /\ parsed' = Append(parsed, cur_line)
                /\ IF r.out = "panic"
                   THEN /\ pc' = "panic"
                        /\ result' = PanicResult
                        /\ UNCHANGED <<lines, cur_line, level, problem,
                                       was_visual>>
                   ELSE /\ pc' = "inner"
                        /\ level' = r.level
                        /\ problem' = r.problem
                        /\ was_visual' = FALSE
                        /\ cur_line' = Yield(lines)
                        /\ lines' = Advance(lines)
                        /\ UNCHANGED result
    /\ UNCHANGED <<stderr_text, problems, is_warning, spin, dispatched,
                   skipped>>
    /\ UNCHANGED parseVars

\* one iteration of the inner loop over the continuation lines
InnerStep ==
    /\ pc = "inner"
    /\ IF cur_line = 0
       THEN /\ pc' = "dispatch"
            /\ UNCHANGED <<lines, cur_line, problem, was_visual, spin>>
       ELSE LET line == stderr_text[cur_line]
            IN  IF ~line_is_visual_aid(line)
                THEN IF starts_with(line, problem.filepath)
                     THEN /\ pc' = "dispatch"
                          /\ UNCHANGED <<lines, cur_line, problem,
                                         was_visual, spin>>
                     ELSE IF was_visual
                     THEN /\ spin < MaxSpin
                          /\ spin' = spin + 1
                          /\ UNCHANGED <<pc, lines, cur_line, problem,
                                         was_visual>>
                     ELSE /\ problem' = PushLine(problem, line)
                          /\ cur_line' = Yield(lines)
                          /\ lines' = Advance(lines)
                          /\ UNCHANGED <<pc, was_visual, spin>>
                ELSE /\ was_visual' = TRUE
                     /\ cur_line' = Yield(lines)
                     /\ lines' = Advance(lines)
                     /\ UNCHANGED <<pc, problem, spin>>
    /\ UNCHANGED <<stderr_text, level, problems, is_warning, result, stdout,
                   parsed, dispatched, skipped>>
    /\ UNCHANGED parseVars

\* the entry of `dispatched` for the diagnostic being dispatched: its header
\* line, its level, and the place the vectors had for it beforehand
DispatchEntry ==
    [line |-> parsed[Len(parsed)], level |-> level, span |-> problem.message,
     owner |-> IF level \in {"Warning", "Error"} THEN Len(problems) + 1
               ELSE Len(problems),
     pos |-> CASE level = "Help" /\ problems /= <<>> ->
                      Len(problems[Len(problems)].help) + 1
               [] level = "Note" /\ problems /= <<>> ->
                      Len(problems[Len(problems)].notes) + 1
               [] OTHER -> 0]

\* match level { ... }
Dispatch ==
    /\ pc = "dispatch"
    /\ dispatched' = Append(dispatched, DispatchEntry)
    /\ CASE level = "Error" ->
              /\ is_warning' = FALSE
              /\ problems' = PushProblem(problems, problem)
              /\ pc' = "outer"
              /\ UNCHANGED <<lines, result, skipped>>
         [] level = "Warning" ->
              /\ problems' = PushProblem(problems, problem)
              /\ skipped' = skipped \cup (lines + 1 .. Advance(Advance(lines)))
              /\ lines' = Advance(Advance(lines))
              /\ pc' = "outer"
              /\ UNCHANGED <<is_warning, result>>
         [] level = "Help" ->
              IF problems = <<>>
              THEN /\ pc' = "panic"
                   /\ result' = PanicResult
                   /\ UNCHANGED <<lines, problems, is_warning, skipped>>
              ELSE /\ problems' = PushHelp(problems, problem.message)
                   /\ pc' = "outer"
                   /\ UNCHANGED <<lines, is_warning, result, skipped>>
         [] level = "Note" ->
              IF problems = <<>>
              THEN /\ pc' = "panic"
                   /\ result' = PanicResult
                   /\ UNCHANGED <<lines, problems, is_warning, skipped>>
              ELSE /\ problems' = PushNote(problems, problem.message)
                   /\ pc' = "outer"
                   /\ UNCHANGED <<lines, is_warning, result, skipped>>
    /\ UNCHANGED <<stderr_text, cur_line, level, problem, was_visual, stdout,
                   spin, parsed>>
    /\ UNCHANGED parseVars

\* Ok(if is_warning { ... } else { Error(problems) })
Return ==
    /\ pc = "return"
    /\ result' = Verdict(is_warning, problems)
    /\ pc' = "done"
    /\ UNCHANGED <<stderr_text, lines, cur_line, level, problem, was_visual,
                   problems, is_warning, stdout, spin, parsed, dispatched,
                   skipped>>
    /\ UNCHANGED parseVars

Init ==
    /\ AggInit
    /\ pfields = NoFields
    /\ pline = <<>>
    /\ ps = ParseIdle
    /\ vres = "none"

Next == OuterStep \/ InnerStep \/ Dispatch \/ Return

Spec == Init /\ [][Next]_vars

----------------------------------------------------------------------------
(* parse_check_line on its own, scanning one rendered header line *)

\* the line is a rendered header, or any short line over ClassifyChars
ParseInit ==
    /\ pfields \in HeaderFields \cup {NoFields}
    /\ IF pfields = NoFields THEN pline \in ClassifyInputs
       ELSE pline = Render(pfields)
    /\ ps = ParseStart
    /\ vres = "none"
    /\ stderr_text = <<>>
    /\ lines = 0
    /\ cur_line = 0
    /\ pc = "idle"
    /\ level = "None"
    /\ problem = NoProblem
    /\ was_visual = FALSE
    /\ problems = <<>>
    /\ is_warning = TRUE
    /\ result = NoResult
    /\ stdout = <<>>
    /\ spin = 0
    /\ parsed = <<>>
    /\ dispatched = <<>>
    /\ skipped = {}

\* one character of the scan
ScanChar ==
    /\ ps.out = "run"
    /\ ps' = ParseStep(ps, pline)
    /\ UNCHANGED <<pfields, pline, vres>>
    /\ UNCHANGED aggVars

ParseNext == ScanChar

ParseSpec == ParseInit /\ [][ParseNext]_vars

----------------------------------------------------------------------------
(* line_is_visual_aid on its own, applied to one line *)

ClassifyInit ==
    /\ pline \in ClassifyInputs
    /\ vres = "none"
    /\ pfields = NoFields
    /\ ps = ParseIdle
    /\ stderr_text = <<>>
    /\ lines = 0
    /\ cur_line = 0
    /\ pc = "idle"
    /\ level = "None"
    /\ problem = NoProblem
    /\ was_visual = FALSE
    /\ problems = <<>>
    /\ is_warning = TRUE
    /\ result = NoResult
    /\ stdout = <<>>
    /\ spin = 0
    /\ parsed = <<>>
    /\ dispatched = <<>>
    /\ skipped = {}

\* the call line_is_visual_aid(line)
Classify ==
    /\ vres = "none"
    /\ vres' = IF line_is_visual_aid(pline) THEN "true" ELSE "false"
    /\ UNCHANGED <<pfields, pline, ps>>
    /\ UNCHANGED aggVars

ClassifyNext == Classify

ClassifySpec == ClassifyInit /\ [][ClassifyNext]_vars

----------------------------------------------------------------------------
(* Properties of the aggregator, checked under Spec *)

\* the header lines of the input, by what parse_check_line returns for them
IsHeader(line) == parse_check_line(line).out = "ret"
HeaderLevel(line) == parse_check_line(line).level
HeaderProblem(line) == parse_check_line(line).problem

\* the levels parse_check_line returned to the aggregator so far
ParsedLevels ==
    {HeaderLevel(stderr_text[parsed[k]]) :
        k \in {j \in 1..Len(parsed) : IsHeader(stderr_text[parsed[j]])}}

\* C1: every iteration of the inner continuation loop that stays in the
\* loop advances the line cursor, so the aggregator terminates on every
\* finite input.
C1_CursorAdvances ==
    [][(pc = "inner" /\ pc' = "inner") => cur_line' /= cur_line]_vars

\* C2: whenever cargo_check returns a Check, it is Perfect iff the problems
\* list is empty, Error(problems) iff some parsed header had severity Error,
\* and Warning(problems) iff the list is non-empty and no parsed header had
\* severity Error.
C2_VerdictLaw ==
    pc = "done" =>
        /\ result.kind \in {"Perfect", "Warning", "Error"}
        /\ result.problems = problems
        /\ result.kind = "Perfect" <=> problems = <<>>
        /\ result.kind = "Error" <=> "Error" \in ParsedLevels
        /\ result.kind = "Warning" <=>
               (problems /= <<>> /\ "Error" \notin ParsedLevels)

\* an Error verdict returned although a Warning was parsed as well
C2_Witness ==
    /\ pc = "done"
    /\ result.kind = "Error"
    /\ {"Warning", "Error"} \subseteq ParsedLevels
    /\ Len(result.problems) = 2

\* the input is exactly one Error header and one Warning header
OneErrorOneWarning ==
    /\ Len(stderr_text) = 2
    /\ IsHeader(stderr_text[1])
    /\ IsHeader(stderr_text[2])
    /\ {HeaderLevel(stderr_text[1]), HeaderLevel(stderr_text[2])}
           = {"Error", "Warning"}

\* C3: an input of exactly one Error header and one Warning header, in
\* either order and for any filepaths, yields Check::Error with exactly the
\* two problems, in input order.
C3_ErrorAndWarning ==
    (pc = "done" /\ OneErrorOneWarning) =>
        /\ result.kind = "Error"
        /\ result.problems =
               <<HeaderProblem(stderr_text[1]), HeaderProblem(stderr_text[2])>>

\* C4: a Warning header followed by two arbitrary lines yields
\* Check::Warning with exactly one problem, whose span and message are those
\* of the header line.
C4_WarningThenTwoLines ==
    ( /\ pc \in {"done", "panic"}
      /\ Len(stderr_text) = 3
      /\ IsHeader(stderr_text[1])
      /\ HeaderLevel(stderr_text[1]) = "Warning" ) =>
        /\ result.kind = "Warning"
        /\ result.problems = <<HeaderProblem(stderr_text[1])>>

\* the input is diagnostics up to line s - 1, then the sentinel at line s
SentinelAfterDiagnostics(s) ==
    /\ s \in 2..Len(stderr_text)
    /\ stderr_text[s] = COMPILE_ERROR_LINE
    /\ \A j \in 1..(s - 1) : IsHeader(stderr_text[j])

\* C5: no line positioned after the sentinel line is passed to
\* parse_check_line, and none contributes a problem.
C5_NothingAfterSentinel ==
    \A s \in 1..Len(stderr_text) :
        SentinelAfterDiagnostics(s) =>
            /\ \A k \in 1..Len(parsed) : parsed[k] < s
            /\ \A k \in 1..Len(dispatched) : dispatched[k].line < s

\* a Help or Note header was dispatched while the problems list was empty
OrphanDispatched ==
    \E k \in 1..Len(dispatched) :
        dispatched[k].level \in {"Help", "Note"} /\ dispatched[k].owner = 0

\* C6: a Help/Note header dispatched while the problems list is empty ends
\* the operation with an error value of a dedicated kind, not with a panic
\* and not by dropping the line.
C6_OrphanIsTypedError ==
    OrphanDispatched =>
        /\ pc /= "panic"
        /\ result.kind = "AttachmentWithoutOwner"

\* the Help/Note dispatches that found an owner, by index in `dispatched`
Attachments ==
    {k \in 1..Len(dispatched) :
        dispatched[k].level \in {"Help", "Note"} /\ dispatched[k].owner > 0}

\* the Warning/Error dispatches, by index in `dispatched`
Owners ==
    {k \in 1..Len(dispatched) : dispatched[k].level \in {"Warning", "Error"}}

\* the attachment list of problem p that level l is pushed onto
ListOf(p, l) == IF l = "Help" THEN p.help ELSE p.notes

RECURSIVE SumLen(_, _, _)
\* the total length of the l-lists of v[1..n]
SumLen(v, n, l) ==
    IF n = 0 THEN 0 ELSE SumLen(v, n - 1, l) + Len(ListOf(v[n], l))

\* the input is a Warning header followed at once by a help header of the
\* same file
WarningThenHelp ==
    /\ Len(stderr_text) = 2
    /\ IsHeader(stderr_text[1])
    /\ HeaderLevel(stderr_text[1]) = "Warning"
    /\ IsHeader(stderr_text[2])
    /\ HeaderLevel(stderr_text[2]) = "Help"
    /\ HeaderProblem(stderr_text[2]).filepath
           = HeaderProblem(stderr_text[1]).filepath

\* C7: every dispatched Help/Note span sits in the list of the problem that
\* was last in the problems list when it was dispatched (the most recently
\* dispatched Warning/Error), at the place it was appended, and in no other
\* list; a Warning header followed at once by a help header of the same file
\* yields one problem whose help list has length 1.
C7_AttachedToLastProblem ==
    /\ \A k \in Attachments :
           LET e == dispatched[k]
               before == {j \in Owners : j < k}
           IN  /\ e.owner = Cardinality(before)
               /\ e.owner <= Len(problems)
               /\ \A j \in before :
                      (\A j2 \in before : j2 <= j) =>
                          /\ dispatched[j].owner = e.owner
                          /\ problems[e.owner].message = dispatched[j].span
               /\ e.pos <= Len(ListOf(problems[e.owner], e.level))
               /\ ListOf(problems[e.owner], e.level)[e.pos] = e.span
    /\ \A k1, k2 \in Attachments :
           ( /\ k1 /= k2
             /\ dispatched[k1].level = dispatched[k2].level
             /\ dispatched[k1].owner = dispatched[k2].owner ) =>
               dispatched[k1].pos /= dispatched[k2].pos
    /\ SumLen(problems, Len(problems), "Help")
           = Cardinality({k \in Attachments : dispatched[k].level = "Help"})
    /\ SumLen(problems, Len(problems), "Note")
           = Cardinality({k \in Attachments : dispatched[k].level = "Note"})
    /\ (pc = "done" /\ WarningThenHelp) =>
           /\ Len(result.problems) = 1
           /\ Len(result.problems[1].help) = 1
           /\ result.problems[1].help[1] = HeaderProblem(stderr_text[2]).message

\* a help span attached to the second of two problems
C7_Witness ==
    /\ pc = "done"
    /\ Len(problems) = 2
    /\ problems[1].help = <<>>
    /\ Len(problems[2].help) = 1

IsPrefix(s, t) == Len(s) <= Len(t) /\ SubSeq(t, 1, Len(s)) = s

\* one step keeps every problem and appends to its lists only at the end
AppendOnlyStep ==
    /\ Len(problems) <= Len(problems')
    /\ \A i \in 1..Len(problems) :
           /\ problems'[i].filepath = problems[i].filepath
           /\ problems'[i].message = problems[i].message
           /\ IsPrefix(problems[i].help, problems'[i].help)
           /\ IsPrefix(problems[i].notes, problems'[i].notes)

\* the header line each entry of the lists was parsed from
HeaderOfProblem(i) ==
    {dispatched[k].line : k \in {j \in Owners : dispatched[j].owner = i}}
HeaderOfAttachment(i, l, n) ==
    {dispatched[k].line :
        k \in {j \in Attachments : /\ dispatched[j].owner = i
                                   /\ dispatched[j].level = l
                                   /\ dispatched[j].pos = n}}

\* list order is input order: the header lines of consecutive entries rise
EncounterOrder ==
    /\ \A i \in 1..Len(problems) :
           /\ Cardinality(HeaderOfProblem(i)) = 1
           /\ \A h \in HeaderOfProblem(i) :
                  /\ problems[i].filepath = HeaderProblem(stderr_text[h]).filepath
                  /\ problems[i].message.start_line
                         = HeaderProblem(stderr_text[h]).message.start_line
           /\ \A l \in {"Help", "Note"} :
                  \A n \in 1..Len(ListOf(problems[i], l)) :
                      /\ Cardinality(HeaderOfAttachment(i, l, n)) = 1
                      /\ \A h \in HeaderOfAttachment(i, l, n) :
                             ListOf(problems[i], l)[n].start_line
                                = HeaderProblem(stderr_text[h]).message.start_line
                      /\ n > 1 =>
                             \A h1 \in HeaderOfAttachment(i, l, n - 1),
                                h2 \in HeaderOfAttachment(i, l, n) : h1 < h2
    /\ \A i \in 2..Len(problems) :
           \A h1 \in HeaderOfProblem(i - 1), h2 \in HeaderOfProblem(i) : h1 < h2

\* C8: the problems list and every help and notes list are append-only (the
\* old value is a prefix of the new one at every step) and their order is
\* the order of the header lines in the input.
C8_AppendOnlyInOrder ==
    /\ []EncounterOrder
    /\ [][AppendOnlyStep]_vars

\* two distinct problems, the second with two notes
C8_Witness ==
    /\ pc = "done"
    /\ Len(problems) = 2
    /\ problems[1].message /= problems[2].message
    /\ Len(problems[2].notes) = 1

\* the line last given to parse_check_line is a header that violates the
\* grammar, and parse_check_line did not return for it
GrammarViolationParsed ==
    /\ parsed /= <<>>
    /\ stderr_text[parsed[Len(parsed)]] = BadNumberA
    /\ ~IsHeader(BadNumberA)

\* C13: when the aggregator reaches a header line that violates the grammar,
\* the operation fails at once and the failure reaches the caller of
\* cargo_check as a typed error value, not as a panic and not by skipping
\* the line.
C13_ParseFailureIsTypedError ==
    GrammarViolationParsed =>
        /\ pc /= "panic"
        /\ result.kind = "Err"

\* C14: parsing writes nothing to standard output; the returned value is
\* the only observable effect of cargo_check's parsing.
C14_NothingPrinted == stdout = <<>>

\* the lines the Warning arm discards in this step lie within the two lines
\* after the Warning's header and not after the next diagnostic's header
\* (cur_line, when the inner loop stopped at one)
SkipFollowsHeader ==
    (pc = "dispatch" /\ level = "Warning") =>
        LET header == parsed[Len(parsed)]
            discarded == skipped' \ skipped
        IN  /\ discarded \subseteq {header + 1, header + 2}
            /\ cur_line /= 0 => \A k \in discarded : k <= cur_line

\* C16: the two lines a Warning dispatch discards are the two lines right
\* after that Warning's header line; the skip never discards a line
\* positioned after the header line of the next diagnostic.
C16_SkipFollowsHeader == [][SkipFollowsHeader]_vars

RECURSIVE MessageWith(_, _, _, _, _)
\* msg extended by the continuation lines stderr_text[from..to] of a
\* diagnostic of file fp: a line break and the line, for each line that is
\* no visual aid, does not start with fp and has no visual aid before it
MessageWith(msg, fp, from, to, seen_visual) ==
    IF from > to THEN msg
    ELSE LET line == stderr_text[from]
         IN  IF line_is_visual_aid(line)
             THEN MessageWith(msg, fp, from + 1, to, TRUE)
             ELSE IF starts_with(line, fp) \/ seen_visual
             THEN MessageWith(msg, fp, from + 1, to, seen_visual)
             ELSE MessageWith(msg \o <<"\n">> \o line, fp, from + 1, to,
                              seen_visual)

\* the message the k-th dispatched diagnostic should end with: its lines run
\* from its header to the header of the next diagnostic, or to the end
ExpectedMessage(k) ==
    LET header == dispatched[k].line
        last == IF k < Len(dispatched) THEN dispatched[k + 1].line - 1
                ELSE Len(stderr_text)
        parsedHeader == HeaderProblem(stderr_text[header])
    IN  MessageWith(parsedHeader.message.message, parsedHeader.filepath,
                    header + 1, last, FALSE)

IsInfix(s, t) ==
    \E a \in 0..(Len(t) - Len(s)) : SubSeq(t, a + 1, a + Len(s)) = s

\* C17: in a completed run the final message of every diagnostic is the
\* header's first message text followed, in input order, by a line break
\* plus L for each of its continuation lines L that is no visual aid, does
\* not start with its filepath and is not preceded by a visual aid; the text
\* of a visual-aid line appears in no message.
C17_MessageText ==
    pc = "done" =>
        \A k \in 1..Len(dispatched) :
            /\ dispatched[k].span.message = ExpectedMessage(k)
            /\ \A j \in 1..Len(stderr_text) :
                   line_is_visual_aid(stderr_text[j]) =>
                       ~IsInfix(<<"\n">> \o stderr_text[j],
                                dispatched[k].span.message)

\* what a dispatch step may change: a Help/Note with an owner appends its
\* span to one list of the last problem and nothing else; a Warning/Error
\* appends the problem and leaves the others as they are
DispatchFrame ==
    pc = "dispatch" =>
        LET n == Len(problems)
        IN  CASE level \in {"Help", "Note"} /\ n > 0 ->
                   /\ Len(problems') = n
                   /\ \A i \in 1..(n - 1) : problems'[i] = problems[i]
                   /\ problems'[n].filepath = problems[n].filepath
                   /\ problems'[n].message = problems[n].message
                   /\ ListOf(problems'[n], level)
                          = Append(ListOf(problems[n], level), problem.message)
                   /\ \A l \in {"Help", "Note"} \ {level} :
                          ListOf(problems'[n], l) = ListOf(problems[n], l)
                   /\ is_warning' = is_warning
              [] level \in {"Warning", "Error"} ->
                   /\ Len(problems') = n + 1
                   /\ SubSeq(problems', 1, n) = problems
                   /\ problems'[n + 1] = problem
              [] OTHER -> TRUE

\* C18: dispatching a Help (Note) appends exactly one span to the help
\* (notes) list of the last problem and leaves the length of the problems
\* list, every other problem, the last problem's filepath, primary span and
\* other list, and the verdict flag unchanged; dispatching a Warning or Error
\* appends exactly one problem and changes no existing problem.
C18_DispatchFrame == [][DispatchFrame]_vars

\* a note dispatched onto the second of two problems, the first one having
\* a help span
C18_Witness ==
    /\ Len(dispatched) = 3
    /\ dispatched[3].level = "Note"
    /\ dispatched[3].owner = 2
    /\ Len(problems) = 2
    /\ Len(problems[2].notes) = 1
    /\ problems[2].help = <<>>

----------------------------------------------------------------------------
(* Properties of parse_check_line, checked under ParseSpec *)

\* the Level a keyword of the grammar stands for
KeywordLevel(kw) ==
    CASE kw = KwWarning -> "Warning" [] kw = KwError -> "Error"
      [] kw = KwHelp -> "Help" [] kw = KwNote -> "Note"

\* the result the fields of the rendered line call for
Expected(f) ==
    [out |-> "ret", level |-> KeywordLevel(f.level),
     problem |->
        [filepath |-> f.path,
         message |-> [start_line |-> DecimalValue(f.start_line),
                      start_col |-> DecimalValue(f.start_col),
                      end_line |-> DecimalValue(f.end_line),
                      end_col |-> DecimalValue(f.end_col),
                      message |-> f.msg],
         help |-> <<>>, notes |-> <<>>]]

\* C9: for a header line in the exact form
\* path:line:col: line:col level: message, parse_check_line returns the
\* severity of the level keyword and a problem whose filepath, coordinates
\* and message are the input fields, with empty help and notes lists.
C9_ExactHeaderParsed ==
    ( /\ pfields.ws = ExactWS
      /\ pfields.level \in Keywords
      /\ ps.out \notin {"run", "idle"} ) =>
        ParseResult(ps) = Expected(pfields)

\* a note header with a message that itself holds ':' and a space, returned
C9_Witness ==
    /\ pfields.ws = ExactWS
    /\ pfields.level = KwNote
    /\ pfields.msg = <<"u", ":", " ", "x">>
    /\ pfields.path = <<"s", "/", "l">>
    /\ ps.out = "ret"
    /\ ps.end_col = 10

\* C10: parse_check_line accepts a header line with any number of whitespace
\* characters, zero included, at each WS* position, and returns the same
\* severity, coordinates and message whatever that number is; the message
\* begins at the first non-whitespace character after the level's ':'.
C10_AnyWhitespace ==
    (pfields.level \in Keywords /\ ps.out \notin {"run", "idle"}) =>
        ParseResult(ps) = Expected(pfields)

\* the step of the Level state that meets the level's ':': the text captured
\* is the run since the last whitespace
AtLevelColon == ps.out = "run" /\ ps.state = "Level" /\ pline[ps.i + 1] = ":"
CapturedLevelText == SubSeq(pline, ps.start + 1, ps.i)

\* the captured text decides the step at the level's ':', and no other step
\* touches the level
LevelDecidedByText ==
    IF AtLevelColon
    THEN IF CapturedLevelText \in Keywords
         THEN /\ ps'.out = "run"
              /\ ps'.state = "FirstMessageLine"
              /\ ps'.level = KeywordLevel(CapturedLevelText)
         ELSE ps'.out = "panic"
    ELSE /\ ps'.level = ps.level
         /\ ps.state /= "FirstMessageLine" => ps'.out /= "ret"

\* C11: parse_check_line returns a severity only when the level text
\* captured in the Level state is exactly one of warning, error, help, note
\* (then Warning, Error, Help, Note); for any other captured text the parse
\* fails and no problem is returned.
C11_LevelExactMatch ==
    /\ [][LevelDecidedByText]_vars
    /\ [](ps.out = "ret" =>
            /\ ps.state = "FirstMessageLine"
            /\ pfields.level \in Keywords
            /\ ps.level = KeywordLevel(pfields.level))

\* a header whose level is written "Warning" fails at the level's ':'
C11_Witness ==
    /\ pfields.level = <<"W", "a", "r", "n", "i", "n", "g">>
    /\ pfields.ws = ExactWS
    /\ ps.state = "Level"
    /\ ps.out = "panic"

\* C15: every problem value returned by parse_check_line (and so every
\* problem of a returned Check) has a non-empty filepath; a header line whose
\* first character is ':' is never turned into a problem.
C15_FilepathNonEmpty ==
    ps.out = "ret" =>
        /\ ParseResult(ps).problem.filepath /= <<>>
        /\ pline[1] /= ":"

\* the place of a state in File, StartLine, ..., FirstMessageLine
StateRank(st) ==
    CASE st = "File" -> 1 [] st = "StartLine" -> 2 [] st = "StartCol" -> 3
      [] st = "EndLine" -> 4 [] st = "EndCol" -> 5 [] st = "Level" -> 6
      [] st = "FirstMessageLine" -> 7

\* one step of the scan: the state stays or moves to the next one, a scan
\* that goes on has consumed one character, a value is returned only from
\* FirstMessageLine, and with the characters exhausted the step is the panic
ForwardStep ==
    /\ StateRank(ps'.state) \in {StateRank(ps.state), StateRank(ps.state) + 1}
    /\ ps'.out = "run" => ps'.i = ps.i + 1
    /\ ps'.out /= "run" => ps'.i = ps.i
    /\ ps'.out = "ret" => ps.state = "FirstMessageLine"
    /\ ps.i >= Len(pline) => ps'.out = "panic"

\* what holds of the locals all along: the offset stays within the line, and
\* a returned value carries the six fields captured before the message
ScanInvariant ==
    /\ ps.i <= Len(pline)
    /\ ps.out = "ret" =>
           /\ ps.state = "FirstMessageLine"
           /\ ps.i < Len(pline)
           /\ ps.filepath = pfields.path
           /\ ps.start_line = DecimalValue(pfields.start_line)
           /\ ps.start_col = DecimalValue(pfields.start_col)
           /\ ps.end_line = DecimalValue(pfields.end_line)
           /\ ps.end_col = DecimalValue(pfields.end_col)
           /\ pfields.level \in Keywords
           /\ ps.level = KeywordLevel(pfields.level)

\* C19: parse_check_line is a single forward pass that terminates on every
\* line: its state moves one step at a time through File, StartLine,
\* StartCol, EndLine, EndCol, Level, FirstMessageLine, never backwards and
\* never skipping one; it returns only from FirstMessageLine with the six
\* preceding fields captured, and a line exhausted before that fails
\* explicitly instead of returning a partly filled problem.
C19_SingleForwardPass ==
    /\ [][ForwardStep]_vars
    /\ []ScanInvariant

\* a line exhausted in the StartLine state: the scan ends in the panic
C19_Witness ==
    /\ pline = <<"x", ":", "x">>
    /\ ps.state = "StartLine"
    /\ ps.i = Len(pline)
    /\ ps.out = "panic"

----------------------------------------------------------------------------
(* Properties of line_is_visual_aid, checked under ClassifySpec *)

\* the positions of whitespace characters in line
WhitespaceAt(line) == {k \in 1..Len(line) : IsWhitespace(line[k])}

\* how many ':' stand before position k
ColonsBefore(line, k) == Cardinality({j \in 1..(k - 1) : line[j] = ":"})

\* the line holds whitespace and fewer than three ':' before the first one
FewColonsBeforeWhitespace(line) ==
    \E k \in WhitespaceAt(line) :
        /\ \A j \in WhitespaceAt(line) : k <= j
        /\ ColonsBefore(line, k) < 3

\* C12: line_is_visual_aid returns true iff the line contains a whitespace
\* character and fewer than three ':' occur before the first one; so it is
\* false for exactly three ':' before the first whitespace, for a fourth ':'
\* before any whitespace and for a line without whitespace, the empty one
\* included.
C12_VisualAidLaw ==
    vres /= "none" =>
        /\ vres = "true" <=> FewColonsBeforeWhitespace(pline)
        /\ WhitespaceAt(pline) = {} => vres = "false"
        /\ (\E k \in WhitespaceAt(pline) :
               /\ \A j \in WhitespaceAt(pline) : k <= j
               /\ ColonsBefore(pline, k) >= 3) => vres = "false"

\* two ':' and then a tab: classified as a visual aid
C12_Witness ==
    /\ pline = <<"x", ":", ":", "\t", ":">>
    /\ vres = "true"

====
